---- MODULE Spec2Model ----
(***************************************************************************)
(* CelebrationMosaic (src/app.py): the persisted entry ledger (data.json), *)
(* the persisted admin settings (admin_settings.json) and the request      *)
(* handlers that read and write them.  Each handler runs on a worker       *)
(* thread of the threaded Flask server; every access to one of the two     *)
(* files is one step of its handler, so handlers interleave between file   *)
(* accesses.                                                               *)
(***************************************************************************)
EXTENDS Integers, Sequences, FiniteSets, TLC

(***************************************************************************)
(* Bounds of the model.                                                    *)
(***************************************************************************)
\* requests started in one behaviour in which requests overlap
MaxOps == 3
\* requests started in one behaviour in which requests run one at a time
MaxSeqOps == 4
\* random.choice is explored over the MaxPick lowest available positions
MaxPick == 2
\* catalog requests started in one behaviour
MaxSymbolOps == 6
\* color scheme uploads started in one behaviour
MaxColorOps == 3
\* instants of the clock in one second
TicksPerSecond == 2

\* the worker threads of the server
Procs == {"w1", "w2"}

(***************************************************************************)
(* Text.  A text is a sequence of chunks; a chunk is a run of n whitespace *)
(* characters or a run of n non-whitespace characters spelling `text`.     *)
(***************************************************************************)
Txt(t, n) == <<[ws |-> FALSE, n |-> n, text |-> t]>>
Ws(n) == <<[ws |-> TRUE, n |-> n, text |-> " "]>>

RECURSIVE len(_)
len(s) == IF s = <<>> THEN 0 ELSE Head(s).n + len(Tail(s))

RECURSIVE lstrip(_)
lstrip(s) == IF s = <<>> THEN <<>>
             ELSE IF Head(s).ws THEN lstrip(Tail(s)) ELSE s

RECURSIVE rstrip(_)
rstrip(s) == IF s = <<>> THEN <<>>
             ELSE IF s[Len(s)].ws THEN rstrip(SubSeq(s, 1, Len(s) - 1)) ELSE s

\* str.strip()
strip(s) == rstrip(lstrip(s))

(***************************************************************************)
(* Program constants.                                                      *)
(***************************************************************************)
MaxNameLen == 50
MaxMessageLen == 200
DefaultMaxEntries == 50
DefaultGridRows == 10
DefaultGridCols == 12
MaxGridDim == 50

default_color_scheme ==
    [submission_page |->
        [background |-> "#000000", text |-> "#ffffff", heading_text |-> "#ffcc00",
         form_background |-> "#1a1a1a", form_border |-> "#333333",
         input_background |-> "#2a2a2a", input_text |-> "#ffffff",
         input_border |-> "#404040", input_focus_border |-> "#ffcc00",
         label_text |-> "#cccccc", button_primary_bg |-> "#ffcc00",
         button_primary_text |-> "#000000", button_primary_hover_bg |-> "#ffd633",
         button_secondary_bg |-> "#404040", button_secondary_text |-> "#ffffff",
         button_secondary_hover_bg |-> "#4d4d4d", alert_success_bg |-> "#28a745",
         alert_success_text |-> "#ffffff", alert_error_bg |-> "#dc3545",
         alert_error_text |-> "#ffffff", symbol_selector_bg |-> "#2a2a2a",
         symbol_selector_border |-> "#404040", symbol_selector_active |-> "#ffcc00"],
     mosaic_page |->
        [background |-> "#000000", text |-> "#ffffff", tile_background |-> "#333333",
         tile_text |-> "#ffffff", tile_border |-> "#ffcc00"]]

default_symbols ==
    << [filename |-> Txt("diya.png", 8), label |-> Txt("Diya", 4)],
       [filename |-> Txt("cracker.png", 11), label |-> Txt("Cracker", 7)],
       [filename |-> Txt("rocket.png", 10), label |-> Txt("Rocket", 6)] >>

\* the images shipped in static/symbols: those of the default catalog
DefaultSymbolFiles == {default_symbols[i].filename : i \in 1..Len(default_symbols)}

valid_animations ==
    <<"confetti", "fireworks", "diwali", "sparkle-rain", "flower-burst", "rangoli">>

default_settings ==
    [logo_filename |-> "logo.png",
     short_logo_filename |-> "logo_20250902_001306.png",
     header_text |-> Txt("Happy", 5) \o Ws(1) \o Txt("Diwali", 6),
     max_entries |-> DefaultMaxEntries,
     celebration_animations |-> valid_animations,
     color_scheme |-> default_color_scheme,
     grid_mode |-> "auto",
     grid_rows |-> DefaultGridRows,
     grid_cols |-> DefaultGridCols,
     symbols |-> default_symbols]

\* the logos shipped in static: those the default settings name
DefaultLogoFiles ==
    {default_settings.logo_filename, default_settings.short_logo_filename}

(***************************************************************************)
(* json.dump(.., ensure_ascii=False, indent=2): the number of characters   *)
(* written.                                                                *)
(***************************************************************************)
RECURSIVE Digits(_)
Digits(n) == IF n < 10 THEN 1 ELSE 1 + Digits(n \div 10)

RECURSIVE SumFn(_)
SumFn(f) ==
    IF DOMAIN f = {} THEN 0
    ELSE LET k == CHOOSE k \in DOMAIN f : TRUE
         IN  f[k] + SumFn([j \in DOMAIN f \ {k} |-> f[j]])

\* a dict at nesting depth k whose member `key` takes member[key] characters
DictSize(k, member) ==
    IF DOMAIN member = {} THEN 2
    ELSE 1 + SumFn([key \in DOMAIN member |->
                       1 + 2 * (k + 1) + (Len(key) + 2) + 2 + member[key]])
           + (Cardinality(DOMAIN member) - 1) + 1 + 2 * k + 1

\* a list at nesting depth k whose i-th item takes items[i] characters
ListSize(k, items) ==
    IF Len(items) = 0 THEN 2
    ELSE 1 + SumFn([i \in 1..Len(items) |-> 1 + 2 * (k + 1) + items[i]])
           + (Len(items) - 1) + 1 + 2 * k + 1

\* an entry of data.json; datetime.now().isoformat() has 26 characters
EntrySize(e) ==
    DictSize(1, [id |-> 2 + Len(e.id[1]) + Digits(e.id[2]),
                 name |-> 2 + len(e.name),
                 message |-> 2 + len(e.message),
                 symbol |-> 2 + len(e.symbol),
                 timestamp |-> 2 + 26,
                 position |-> Digits(e.position)])

DataSize(data) == ListSize(0, [i \in 1..Len(data) |-> EntrySize(data[i])])

SettingsValueSize(key, v) ==
    CASE key \in {"logo_filename", "short_logo_filename", "grid_mode"} -> 2 + Len(v)
      [] key = "header_text" -> 2 + len(v)
      [] key \in {"max_entries", "grid_rows", "grid_cols"} -> Digits(v)
      [] key = "celebration_animations" ->
            ListSize(1, [i \in 1..Len(v) |-> 2 + Len(v[i])])
      [] key = "symbols" ->
            ListSize(1, [i \in 1..Len(v) |->
                DictSize(2, [filename |-> 2 + len(v[i].filename),
                             label |-> 2 + len(v[i].label)])])
      [] key = "color_scheme" ->
            DictSize(1, [section \in DOMAIN v |->
                DictSize(2, [field \in DOMAIN v[section] |-> 2 + Len(v[section][field])])])

SettingsSize(settings) ==
    DictSize(0, [key \in DOMAIN settings |-> SettingsValueSize(key, settings[key])])

(***************************************************************************)
(* Files.  A file is absent, empty (just truncated by open(.., 'w')),      *)
(* corrupt (bytes that are no JSON document) or holds a document; size is  *)
(* the number of characters in it.                                         *)
(***************************************************************************)
Absent == [st |-> "absent", doc |-> <<>>, size |-> 0]
Truncated == [st |-> "empty", doc |-> <<>>, size |-> 0]
Corrupt(n) == [st |-> "corrupt", doc |-> <<>>, size |-> n]
Holding(d, n) == [st |-> "ok", doc |-> d, size |-> n]

\* json.load succeeds (no FileNotFoundError, no JSONDecodeError)
Parsable(f) == f.st = "ok"

\* open(path, 'w'): the file exists and is empty from here on
open_w(f) == Truncated

\* json.dump + close of a handle opened with 'w': the n characters of document
\* d go to offset 0 of whatever the file holds now.  Onto the empty file, or
\* onto no more characters than n, they leave the document; onto a longer
\* content another writer put there since this handle's truncation they leave
\* the document followed by that content's tail, which is no JSON document.
dump(f, d, n) == IF f.size > n THEN Corrupt(f.size) ELSE Holding(d, n)

(***************************************************************************)
(* load_admin_settings: the merge of the defaults into a loaded document.  *)
(***************************************************************************)
\* Python truthiness of a list
Falsy(v) == v = <<>>

\* the merge that takes the default for every key, present or not
MergeKeyOverwrites(settings, key) == default_settings[key]

\* the merge that extends a present animation list with the defaults instead
\* of replacing an empty one
MergeKeyExtends(settings, key) ==
    IF key \notin DOMAIN settings THEN default_settings[key]
    ELSE IF key = "celebration_animations"
         THEN settings[key] \o default_settings[key]
         ELSE settings[key]

MergeKey(settings, key) ==
    IF key \notin DOMAIN settings THEN default_settings[key]
    ELSE IF key = "celebration_animations" /\ Falsy(settings[key])
         THEN default_settings[key]
         ELSE settings[key]

MergeDefaults(settings) ==
    [key \in (DOMAIN settings) \cup (DOMAIN default_settings) |-> MergeKey(settings, key)]

(***************************************************************************)
(* State.                                                                  *)
(***************************************************************************)
VARIABLES
    settingsFile,   \* admin_settings.json
    dataFile,       \* data.json
    proc,           \* per worker: the request it serves and its local variables
    clock,          \* datetime.now(), as last read
    nops,           \* requests started so far
    appended,       \* history: the entries submit has saved, in the order saved
    evicted,        \* history: the entries a saved submit dropped at the cap
    cleared,        \* history: the entries saved before a clear_entries completed
    clearedTo,      \* history: how many of appended the last clear_entries removed
    symbolFiles,    \* the image files of static/symbols
    logoFiles       \* the logo files of static

vars == <<settingsFile, dataFile, proc, clock, nops, appended, evicted, cleared, clearedTo, symbolFiles, logoFiles>>

\* a worker between requests
Idle ==
    [pc |-> "idle", op |-> "none", form |-> <<>>, heal |-> "none",
     before |-> <<>>,      \* history: data.json as the request found it
     name |-> <<>>, message |-> <<>>, symbol |-> <<>>,
     filename |-> <<>>, label |-> <<>>,
     settings |-> <<>>, total_positions |-> 0, available_positions |-> {},
     new_entry |-> <<>>, data |-> <<>>, dropped |-> {}, entries |-> <<>>,
     flash |-> <<>>]

AllIdle == \A p \in Procs : proc[p].pc = "idle"

Init ==
    /\ settingsFile = Absent
    /\ dataFile = Absent
    /\ proc = [p \in Procs |-> Idle]
    /\ clock = 0
    /\ nops = 0
    /\ appended = <<>>
    /\ evicted = {}
    /\ cleared = {}
    /\ clearedTo = 0
    /\ symbolFiles = DefaultSymbolFiles
    /\ logoFiles = DefaultLogoFiles

\* a request reaches its response: the worker keeps what it answered
Respond(w, flash) == [w EXCEPT !.pc = "done", !.flash = flash]

\* the worker is handed back to the pool
Return(p) ==
    /\ proc[p].pc = "done"
    /\ proc' = [proc EXCEPT ![p] = Idle]
    /\ UNCHANGED <<settingsFile, dataFile, clock, nops, appended, evicted, cleared, clearedTo, symbolFiles, logoFiles>>

(***************************************************************************)
(* Uploaded files.  The name of an uploaded file is a sequence of          *)
(* characters.                                                             *)
(***************************************************************************)
UpperCase == <<"A", "B", "C", "D", "E", "F", "G", "H", "I", "J", "K", "L", "M",
               "N", "O", "P", "Q", "R", "S", "T", "U", "V", "W", "X", "Y", "Z">>
LowerCase == <<"a", "b", "c", "d", "e", "f", "g", "h", "i", "j", "k", "l", "m",
               "n", "o", "p", "q", "r", "s", "t", "u", "v", "w", "x", "y", "z">>

\* str.lower()
lower(s) ==
    [i \in 1..Len(s) |->
        IF \E k \in 1..Len(UpperCase) : UpperCase[k] = s[i]
        THEN LowerCase[CHOOSE k \in 1..Len(UpperCase) : UpperCase[k] = s[i]]
        ELSE s[i]]

\* str.endswith(suffix)
endswith(s, suffix) ==
    /\ Len(s) >= Len(suffix)
    /\ SubSeq(s, Len(s) - Len(suffix) + 1, Len(s)) = suffix

DotPng == <<".", "p", "n", "g">>
DotJson == <<".", "j", "s", "o", "n">>

(***************************************************************************)
(* The symbol catalog: add_symbol, remove_symbol.                          *)
(***************************************************************************)
FlashSymbolFileRequired == <<"Symbol image file is required!", "error">>
FlashSymbolBothRequired == <<"Both symbol file and label are required!", "error">>
FlashSymbolPngOnly == <<"Only PNG files are allowed for symbols!", "error">>
FlashInvalidRemoval == <<"Invalid symbol!", "error">>
FlashLastSymbol == <<"Cannot remove the last symbol!", "error">>

\* datetime.now().strftime('%Y%m%d_%H%M%S'): the instant cut to its second
strftime(now) == now \div TicksPerSecond

\* secure_filename(f"symbol_{...}.png"): 26 characters, all of them kept
SymbolFilename(now) == Txt("symbol_" \o ToString(strftime(now)) \o ".png", 26)

\* the guard that refuses only when there is nothing to remove
LastSymbolOnlyEmpty(symbols) == Len(symbols) < 1

\* remove_symbol's guard: len(settings['symbols']) <= 1
LastSymbol(symbols) == Len(symbols) <= 1

\* [s for s in settings['symbols'] if s['filename'] != filename]
WithoutSymbol(symbols, filename) ==
    SelectSeq(symbols, LAMBDA s : s.filename # filename)

(***************************************************************************)
(* upload_color_scheme: the checks on the uploaded document.  The document *)
(* is no JSON ("garbage"), a JSON list of strings, or a JSON object of     *)
(* sections, each an object of colours; a colour is a sequence of          *)
(* characters.                                                             *)
(***************************************************************************)
FlashNoFile == <<"No file selected!", "error">>
FlashInvalidFileType == <<"Invalid file type! Please upload a JSON file.", "error">>
FlashInvalidJson == <<"Invalid JSON file!", "error">>
FlashMissingSections ==
    <<"Invalid color scheme format! Missing required sections.", "error">>
FlashMissingSubmissionFields ==
    <<"Invalid submission page color scheme! Missing required fields.", "error">>
FlashMissingMosaicFields ==
    <<"Invalid mosaic page color scheme! Missing required fields.", "error">>
FlashInvalidColor ==
    <<"Invalid color code format! Use hex colors (e.g., #FF0000).", "error">>
FlashColorSchemeError ==
    <<"An error occurred while uploading the color scheme.", "error">>

required_sections == {"submission_page", "mosaic_page"}
required_submission_fields == {"background", "text", "button", "button_text"}
required_mosaic_fields ==
    {"background", "text", "tile_background", "tile_text", "tile_border"}

HexDigits ==
    {"0", "1", "2", "3", "4", "5", "6", "7", "8", "9",
     "A", "B", "C", "D", "E", "F", "a", "b", "c", "d", "e", "f"}

\* the colour check that looks at the first character only
IsHexColorPrefixOnly(color) == Len(color) >= 1 /\ color[1] = "#"

\* color.startswith('#') and all(c in '0123456789ABCDEFabcdef' for c in color[1:])
IsHexColor(color) ==
    /\ Len(color) >= 1
    /\ color[1] = "#"
    /\ \A i \in 2..Len(color) : color[i] \in HexDigits

\* the outcome of the checks of lines 247-274: the flash of the first check
\* that fails, <<>> when none does
ValidateColorScheme(body) ==
    CASE body.kind = "garbage" -> FlashInvalidJson
      [] body.kind = "list" ->
            \* `section in color_scheme` is membership in the list;
            \* color_scheme['submission_page'] then raises TypeError
            IF ~(\A section \in required_sections :
                    \E i \in 1..Len(body.val) : body.val[i] = section)
            THEN FlashMissingSections
            ELSE FlashColorSchemeError
      [] body.kind = "dict" ->
            LET color_scheme == body.val
            IN  IF ~(required_sections \subseteq DOMAIN color_scheme)
                THEN FlashMissingSections
                ELSE IF ~(required_submission_fields
                              \subseteq DOMAIN color_scheme.submission_page)
                THEN FlashMissingSubmissionFields
                ELSE IF ~(required_mosaic_fields
                              \subseteq DOMAIN color_scheme.mosaic_page)
                THEN FlashMissingMosaicFields
                ELSE IF \E section \in DOMAIN color_scheme :
                            \E field \in DOMAIN color_scheme[section] :
                                ~IsHexColor(color_scheme[section][field])
                THEN FlashInvalidColor
                ELSE <<>>

(***************************************************************************)
(* load_admin_settings, called at the labels of SettingsLabels.  The read  *)
(* is one step; when the file is absent or no JSON document the defaults   *)
(* are saved (open, then dump) and returned.                               *)
(***************************************************************************)
FlashInvalidSymbol == <<"Invalid symbol selected!", "error">>

SettingsLabels ==
    {"api_settings", "submit_settings", "avail_settings", "update_settings",
     "add_settings", "remove_settings", "color_settings", "logo_settings",
     "mosaic_settings"}

\* an optional int of request.form.get(.., type=int) is <<>> (None) or <<n>>;
\* `v and v > 0`
Positive(v) == v # <<>> /\ v[1] # 0 /\ v[1] > 0

\* update_settings: the form applied to the loaded settings
ApplyUpdate(s, f) ==
    LET header_text == strip(f.header_text)
        s1 == IF header_text # <<>> THEN [s EXCEPT !.header_text = header_text] ELSE s
        s2 == IF Positive(f.max_entries)
              THEN [s1 EXCEPT !.max_entries = f.max_entries[1]] ELSE s1
        s3 == [s2 EXCEPT !.grid_mode = f.grid_mode]
        s4 == IF f.grid_mode = "manual" /\ Positive(f.grid_rows)
                 /\ f.grid_rows[1] <= MaxGridDim
              THEN [s3 EXCEPT !.grid_rows = f.grid_rows[1]] ELSE s3
        s5 == IF f.grid_mode = "manual" /\ Positive(f.grid_cols)
                 /\ f.grid_cols[1] <= MaxGridDim
              THEN [s4 EXCEPT !.grid_cols = f.grid_cols[1]] ELSE s4
        chosen == IF f.celebration_animations = <<>> THEN <<"confetti">>
                  ELSE f.celebration_animations
        celebration_animations ==
            SelectSeq(chosen, LAMBDA anim :
                \E i \in 1..Len(valid_animations) : valid_animations[i] = anim)
    IN  [s5 EXCEPT !.celebration_animations = celebration_animations]

\* the handler goes on with the settings load_admin_settings returned
AfterSettings(w, s) ==
    CASE w.pc = "api_settings" ->
            \* api_admin_settings: jsonify(settings)
            [Respond(w, <<"json", "ok">>) EXCEPT !.settings = s]
      [] w.pc = "submit_settings" ->
            \* submit: the symbol must be in the catalog
            IF \E i \in 1..Len(s.symbols) : s.symbols[i].filename = w.symbol
            THEN [w EXCEPT !.pc = "avail_settings", !.settings = s]
            ELSE Respond(w, FlashInvalidSymbol)
      [] w.pc = "avail_settings" ->
            \* get_available_positions: its own load of the settings
            [w EXCEPT !.pc = "avail_data",
                      !.total_positions = s.grid_rows * s.grid_cols]
      [] w.pc = "update_settings" ->
            \* update_settings: the settings to save
            [w EXCEPT !.pc = "settings_open", !.settings = ApplyUpdate(s, w.form)]
      [] w.pc = "add_settings" ->
            \* add_symbol: on to the upload's file name and file.save
            [w EXCEPT !.pc = "add_file", !.settings = s]
      [] w.pc = "remove_settings" ->
            \* remove_symbol: the last symbol stays
            IF LastSymbol(s.symbols)
            THEN Respond(w, FlashLastSymbol)
            ELSE [w EXCEPT !.pc = "remove_file", !.settings = s]
      [] w.pc = "color_settings" ->
            \* upload_color_scheme: the settings to save
            [w EXCEPT !.pc = "settings_open",
                      !.settings = [s EXCEPT !.color_scheme = w.form.body.val]]
      [] w.pc = "mosaic_settings" ->
            \* mosaic: on to load_data
            [w EXCEPT !.pc = "mosaic_data", !.settings = s]
      [] w.pc = "logo_settings" ->
            \* upload_logo: the settings to save
            [w EXCEPT !.pc = "settings_open",
                      !.settings =
                          IF w.form.logo_type = "short"
                          THEN [s EXCEPT !.short_logo_filename = w.filename]
                          ELSE [s EXCEPT !.logo_filename = w.filename]]

load_admin_settings(p) ==
    /\ proc[p].pc \in SettingsLabels
    /\ proc[p].heal = "none"
    /\ proc' = [proc EXCEPT ![p] =
            IF Parsable(settingsFile)
            THEN AfterSettings(proc[p], MergeDefaults(settingsFile.doc))
            ELSE [proc[p] EXCEPT !.heal = "open"]]
    /\ UNCHANGED <<settingsFile, dataFile, clock, nops, appended, evicted, cleared, clearedTo, symbolFiles, logoFiles>>

\* save_admin_settings(default_settings): open('admin_settings.json', 'w')
heal_open(p) ==
    /\ proc[p].heal = "open"
    /\ settingsFile' = open_w(settingsFile)
    /\ proc' = [proc EXCEPT ![p].heal = "dump"]
    /\ UNCHANGED <<dataFile, clock, nops, appended, evicted, cleared, clearedTo, symbolFiles, logoFiles>>

\* save_admin_settings(default_settings): json.dump; return default_settings
heal_dump(p) ==
    /\ proc[p].heal = "dump"
    /\ settingsFile' =
           dump(settingsFile, default_settings, SettingsSize(default_settings))
    /\ proc' = [proc EXCEPT ![p] =
            AfterSettings([proc[p] EXCEPT !.heal = "none"], default_settings)]
    /\ UNCHANGED <<dataFile, clock, nops, appended, evicted, cleared, clearedTo, symbolFiles, logoFiles>>

(***************************************************************************)
(* save_admin_settings(settings) of a handler: open, then dump.            *)
(***************************************************************************)
FlashSettingsUpdated == <<"Settings updated successfully!", "success">>
FlashSymbolAdded == <<"Symbol added successfully!", "success">>
FlashSymbolRemoved == <<"Symbol removed successfully!", "success">>
FlashColorSchemeUpdated == <<"Color scheme updated successfully!", "success">>

FlashLogoUploaded(logo_type) ==
    <<(IF logo_type = "short" THEN "Short" ELSE "Main")
          \o " logo uploaded successfully!", "success">>

\* what a handler flashes once its save_admin_settings has returned
FlashSaved(w) ==
    CASE w.op = "update_settings" -> FlashSettingsUpdated
      [] w.op = "add_symbol" -> FlashSymbolAdded
      [] w.op = "remove_symbol" -> FlashSymbolRemoved
      [] w.op = "upload_color_scheme" -> FlashColorSchemeUpdated
      [] w.op = "upload_logo" -> FlashLogoUploaded(w.form.logo_type)

save_admin_settings_open(p) ==
    /\ proc[p].pc = "settings_open"
    /\ settingsFile' = open_w(settingsFile)
    /\ proc' = [proc EXCEPT ![p].pc = "settings_dump"]
    /\ UNCHANGED <<dataFile, clock, nops, appended, evicted, cleared, clearedTo, symbolFiles, logoFiles>>

save_admin_settings_dump(p) ==
    /\ proc[p].pc = "settings_dump"
    /\ settingsFile' =
           dump(settingsFile, proc[p].settings, SettingsSize(proc[p].settings))
    /\ proc' = [proc EXCEPT ![p] = Respond(proc[p], FlashSaved(proc[p]))]
    /\ UNCHANGED <<dataFile, clock, nops, appended, evicted, cleared, clearedTo, symbolFiles, logoFiles>>

(***************************************************************************)
(* update_settings                                                         *)
(***************************************************************************)
update_settings(p, f) ==
    /\ proc[p].pc = "idle"
    /\ proc' = [proc EXCEPT ![p] = [Idle EXCEPT !.pc = "update_settings",
                                                !.op = "update_settings",
                                                !.form = f]]
    /\ nops' = nops + 1
    /\ UNCHANGED <<settingsFile, dataFile, clock, appended, evicted, cleared, clearedTo, symbolFiles, logoFiles>>

(***************************************************************************)
(* add_symbol                                                              *)
(***************************************************************************)
add_symbol(p, f) ==
    /\ proc[p].pc = "idle"
    /\ LET label == strip(f.label)
           w == [Idle EXCEPT !.op = "add_symbol", !.form = f]
       IN  proc' = [proc EXCEPT ![p] =
               IF ~f.has_file THEN Respond(w, FlashSymbolFileRequired)
               ELSE IF f.filename = <<>> \/ label = <<>>
               THEN Respond(w, FlashSymbolBothRequired)
               ELSE IF ~endswith(lower(f.filename), DotPng)
               THEN Respond(w, FlashSymbolPngOnly)
               ELSE [w EXCEPT !.pc = "add_settings", !.label = label]]
    /\ nops' = nops + 1
    /\ UNCHANGED <<settingsFile, dataFile, clock, appended, evicted, cleared,
                   clearedTo, symbolFiles, logoFiles>>

\* the file name from datetime.now(), file.save, settings['symbols'].append
add_symbol_file(p) ==
    /\ proc[p].pc = "add_file"
    /\ \E now \in {clock, clock + 1} :
          LET w == proc[p]
              filename == SymbolFilename(now)
          IN  /\ clock' = now
              /\ symbolFiles' = symbolFiles \cup {filename}
              /\ proc' = [proc EXCEPT ![p] =
                     [w EXCEPT !.pc = "settings_open",
                               !.filename = filename,
                               !.settings.symbols =
                                   Append(w.settings.symbols,
                                          [filename |-> filename, label |-> w.label])]]
    /\ UNCHANGED <<settingsFile, dataFile, nops, appended, evicted, cleared, clearedTo, logoFiles>>

(***************************************************************************)
(* remove_symbol                                                           *)
(***************************************************************************)
remove_symbol(p, f) ==
    /\ proc[p].pc = "idle"
    /\ LET filename == strip(f.filename)
           w == [Idle EXCEPT !.op = "remove_symbol", !.form = f]
       IN  proc' = [proc EXCEPT ![p] =
               IF filename = <<>> THEN Respond(w, FlashInvalidRemoval)
               ELSE [w EXCEPT !.pc = "remove_settings", !.filename = filename]]
    /\ nops' = nops + 1
    /\ UNCHANGED <<settingsFile, dataFile, clock, appended, evicted, cleared,
                   clearedTo, symbolFiles, logoFiles>>

\* os.remove(symbol_path), a missing file only logged, and the catalog
\* without the entries of that file name
remove_symbol_file(p) ==
    /\ proc[p].pc = "remove_file"
    /\ symbolFiles' = symbolFiles \ {proc[p].filename}
    /\ proc' = [proc EXCEPT ![p] =
           [proc[p] EXCEPT !.pc = "settings_open",
                           !.settings.symbols =
                               WithoutSymbol(proc[p].settings.symbols, proc[p].filename)]]
    /\ UNCHANGED <<settingsFile, dataFile, clock, nops, appended, evicted, cleared,
                   clearedTo, logoFiles>>

(***************************************************************************)
(* upload_color_scheme                                                     *)
(***************************************************************************)
upload_color_scheme(p, f) ==
    /\ proc[p].pc = "idle"
    /\ LET w == [Idle EXCEPT !.op = "upload_color_scheme", !.form = f]
       IN  proc' = [proc EXCEPT ![p] =
               IF ~f.has_file \/ f.filename = <<>> THEN Respond(w, FlashNoFile)
               ELSE IF ~endswith(f.filename, DotJson)
               THEN Respond(w, FlashInvalidFileType)
               ELSE IF ValidateColorScheme(f.body) # <<>>
               THEN Respond(w, ValidateColorScheme(f.body))
               ELSE [w EXCEPT !.pc = "color_settings"]]
    /\ nops' = nops + 1
    /\ UNCHANGED <<settingsFile, dataFile, clock, appended, evicted, cleared,
                   clearedTo, symbolFiles, logoFiles>>

(***************************************************************************)
(* upload_logo                                                             *)
(***************************************************************************)
FlashInvalidLogoType ==
    <<"Invalid file type! Please upload PNG, JPG, JPEG, GIF, or SVG files.", "error">>

ALLOWED_EXTENSIONS ==
    {<<"p", "n", "g">>, <<"j", "p", "g">>, <<"j", "p", "e", "g">>,
     <<"g", "i", "f">>, <<"s", "v", "g">>}

\* the index of the last '.' of s, 0 when it has none
LastDot(s) ==
    IF \E i \in 1..Len(s) : s[i] = "."
    THEN CHOOSE i \in 1..Len(s) : s[i] = "." /\ \A j \in (i + 1)..Len(s) : s[j] # "."
    ELSE 0

\* '.' in filename and filename.rsplit('.', 1)[1].lower() in ALLOWED_EXTENSIONS
allowed_file(filename) ==
    /\ LastDot(filename) # 0
    /\ lower(SubSeq(filename, LastDot(filename) + 1, Len(filename)))
           \in ALLOWED_EXTENSIONS

\* the characters secure_filename keeps: [A-Za-z0-9_.-]
SafeChars ==
    {UpperCase[i] : i \in 1..Len(UpperCase)} \cup
    {LowerCase[i] : i \in 1..Len(LowerCase)} \cup
    {"0", "1", "2", "3", "4", "5", "6", "7", "8", "9", "_", ".", "-"}

\* "_".join(s.split()): the words of s, blanks between them made one '_'
RECURSIVE JoinWords(_)
JoinWords(s) ==
    IF s = <<>> THEN <<>>
    ELSE IF Head(s) = " " THEN JoinWords(Tail(s))
    ELSE IF Len(s) >= 2 /\ s[2] = " "
    THEN IF JoinWords(Tail(s)) = <<>> THEN <<Head(s)>>
         ELSE <<Head(s), "_">> \o JoinWords(Tail(s))
    ELSE <<Head(s)>> \o JoinWords(Tail(s))

\* str.strip("._")
RECURSIVE StripDots(_)
StripDots(s) ==
    IF s = <<>> THEN <<>>
    ELSE IF Head(s) \in {".", "_"} THEN StripDots(Tail(s))
    ELSE IF s[Len(s)] \in {".", "_"} THEN StripDots(SubSeq(s, 1, Len(s) - 1))
    ELSE s

\* werkzeug's secure_filename: path separators are blanks, blanks between
\* words are '_', every other character outside SafeChars is dropped, and no
\* '.' or '_' stays at either end
secure_filename(s) ==
    LET spaced == [i \in 1..Len(s) |-> IF s[i] = "/" THEN " " ELSE s[i]]
    IN  StripDots(SelectSeq(JoinWords(spaced), LAMBDA c : c \in SafeChars))

\* os.path.splitext(s)[1]: from the last '.', unless only dots precede it
splitext(s) ==
    IF LastDot(s) # 0 /\ \E i \in 1..(LastDot(s) - 1) : s[i] # "."
    THEN SubSeq(s, LastDot(s), Len(s))
    ELSE <<>>

\* the characters of s as one string
RECURSIVE Str(_)
Str(s) == IF s = <<>> THEN "" ELSE Head(s) \o Str(Tail(s))

\* f"logo_{datetime.now().strftime('%Y%m%d_%H%M%S')}{ext}": the stamp has 15
\* characters and names the second
LogoFilename(now, ext) ==
    LET Zeros == <<"", "0", "00", "000", "0000", "00000">>
    IN  "logo_00000000_" \o Zeros[7 - Digits(strftime(now))]
            \o ToString(strftime(now)) \o Str(ext)

upload_logo(p, f) ==
    /\ proc[p].pc = "idle"
    /\ LET w == [Idle EXCEPT !.op = "upload_logo", !.form = f]
       IN  proc' = [proc EXCEPT ![p] =
               IF ~f.has_file \/ f.filename = <<>> THEN Respond(w, FlashNoFile)
               ELSE IF ~allowed_file(f.filename)
               THEN Respond(w, FlashInvalidLogoType)
               ELSE [w EXCEPT !.pc = "logo_file"]]
    /\ nops' = nops + 1
    /\ UNCHANGED <<settingsFile, dataFile, clock, appended, evicted, cleared,
                   clearedTo, symbolFiles, logoFiles>>

\* the file name from secure_filename's extension and datetime.now(), file.save
upload_logo_file(p) ==
    /\ proc[p].pc = "logo_file"
    /\ \E now \in {clock, clock + 1} :
          LET w == proc[p]
              ext == splitext(secure_filename(w.form.filename))
              filename == LogoFilename(now, ext)
          IN  /\ clock' = now
              /\ logoFiles' = logoFiles \cup {filename}
              /\ proc' = [proc EXCEPT ![p] =
                     [w EXCEPT !.pc = "logo_settings", !.filename = filename]]
    /\ UNCHANGED <<settingsFile, dataFile, nops, appended, evicted, cleared,
                   clearedTo, symbolFiles>>

(***************************************************************************)
(* load_data, save_data                                                    *)
(***************************************************************************)
load_data(f) == IF Parsable(f) THEN f.doc ELSE <<>>

Range(q) == {q[i] : i \in 1..Len(q)}

FlashSubmitted == <<"Your submission has been added to the mosaic!", "success">>
FlashCleared == <<"All entries have been cleared!", "success">>

save_data_open(p) ==
    /\ proc[p].pc = "data_open"
    /\ dataFile' = open_w(dataFile)
    /\ proc' = [proc EXCEPT ![p].pc = "data_dump"]
    /\ UNCHANGED <<settingsFile, clock, nops, appended, evicted, cleared, clearedTo, symbolFiles, logoFiles>>

save_data_dump(p) ==
    /\ proc[p].pc = "data_dump"
    /\ dataFile' = dump(dataFile, proc[p].data, DataSize(proc[p].data))
    /\ proc' = [proc EXCEPT ![p] =
            Respond(proc[p], IF proc[p].op = "submit" THEN FlashSubmitted
                                                     ELSE FlashCleared)]
    /\ IF proc[p].op = "submit"
       THEN /\ appended' = Append(appended, proc[p].new_entry)
            /\ evicted' = evicted \cup proc[p].dropped
            /\ UNCHANGED <<cleared, clearedTo>>
       ELSE /\ cleared' = cleared \cup Range(appended)
            /\ clearedTo' = Len(appended)
            /\ UNCHANGED <<appended, evicted>>
    /\ UNCHANGED <<settingsFile, clock, nops, symbolFiles, logoFiles>>

(***************************************************************************)
(* clear_entries: save_data([])                                            *)
(***************************************************************************)
clear_entries(p) ==
    /\ proc[p].pc = "idle"
    /\ proc' = [proc EXCEPT ![p] = [Idle EXCEPT !.pc = "data_open",
                                                !.op = "clear_entries"]]
    /\ nops' = nops + 1
    /\ UNCHANGED <<settingsFile, dataFile, clock, appended, evicted, cleared, clearedTo, symbolFiles, logoFiles>>

(***************************************************************************)
(* submit                                                                  *)
(***************************************************************************)
FlashRequired == <<"All fields are required!", "error">>
FlashNameTooLong == <<"Name must be 50 characters or less!", "error">>
FlashMessageTooLong == <<"Message must be 200 characters or less!", "error">>
FlashFull == <<"The mosaic is currently full!", "error">>

\* the checks with >= for > in the name's length check
ValidateOffByOne(name, message, symbol) ==
    IF name = <<>> \/ message = <<>> \/ symbol = <<>> THEN FlashRequired
    ELSE IF len(name) >= MaxNameLen THEN FlashNameTooLong
    ELSE IF len(message) > MaxMessageLen THEN FlashMessageTooLong
    ELSE <<>>

\* the checks without the one for empty fields
ValidateLengthsOnly(name, message, symbol) ==
    IF len(name) > MaxNameLen THEN FlashNameTooLong
    ELSE IF len(message) > MaxMessageLen THEN FlashMessageTooLong
    ELSE <<>>

\* the outcome of the checks made before the settings are loaded
Validate(name, message, symbol) ==
    IF name = <<>> \/ message = <<>> \/ symbol = <<>> THEN FlashRequired
    ELSE IF len(name) > MaxNameLen THEN FlashNameTooLong
    ELSE IF len(message) > MaxMessageLen THEN FlashMessageTooLong
    ELSE <<>>

submit(p, f) ==
    /\ proc[p].pc = "idle"
    /\ LET name == strip(f.name)
           message == strip(f.message)
           symbol == strip(f.symbol)
           w == [Idle EXCEPT !.op = "submit", !.form = f, !.before = dataFile]
       IN  proc' = [proc EXCEPT ![p] =
               IF Validate(name, message, symbol) # <<>>
               THEN Respond(w, Validate(name, message, symbol))
               ELSE [w EXCEPT !.pc = "submit_settings", !.name = name,
                              !.message = message, !.symbol = symbol]]
    /\ nops' = nops + 1
    /\ UNCHANGED <<settingsFile, dataFile, clock, appended, evicted, cleared, clearedTo, symbolFiles, logoFiles>>

\* get_available_positions that forgets the used positions
AvailablePositionsAll(total_positions, data) ==
    {pos \in 0..(total_positions - 1) : TRUE}

\* get_available_positions over range(total_positions + 1)
AvailablePositionsOffByOne(total_positions, data) ==
    {pos \in 0..total_positions : \A i \in 1..Len(data) : data[i].position # pos}

\* get_available_positions: the positions of range(total_positions) no entry holds
AvailablePositions(total_positions, data) ==
    {pos \in 0..(total_positions - 1) : \A i \in 1..Len(data) : data[i].position # pos}

\* the positions random.choice is explored over
Pick(available) ==
    {pos \in available : Cardinality({q \in available : q < pos}) < MaxPick}

\* get_available_positions' load of the ledger, the choice of a position and
\* the new entry, stamped datetime.now()
get_available_positions(p) ==
    /\ proc[p].pc = "avail_data"
    /\ LET w == proc[p]
           data == load_data(dataFile)
           available_positions == AvailablePositions(w.total_positions, data)
       IN  IF available_positions = {}
           THEN /\ proc' = [proc EXCEPT ![p] = Respond(w, FlashFull)]
                /\ clock' = clock
           ELSE \E position \in Pick(available_positions), now \in {clock, clock + 1} :
                /\ clock' = now
                /\ proc' = [proc EXCEPT ![p] =
                        [w EXCEPT !.pc = "data_load",
                                  !.data = data,
                                  !.available_positions = available_positions,
                                  !.new_entry =
                                      [id |-> <<"tile-", position + 1>>,
                                       name |-> w.name,
                                       message |-> w.message,
                                       symbol |-> w.symbol,
                                       timestamp |-> now,
                                       position |-> position]]]
    /\ UNCHANGED <<settingsFile, dataFile, nops, appended, evicted, cleared, clearedTo, symbolFiles, logoFiles>>

\* data[:max_entries]: the cap keeps the oldest entries
RecentOldest(data, max_entries) == SubSeq(data, 1, max_entries)

\* data[-(max_entries + 1):]: the cap keeps one entry too many
RecentOneMore(data, max_entries) ==
    SubSeq(data, Len(data) - max_entries, Len(data))

\* data[-max_entries:]
Recent(data, max_entries) ==
    IF max_entries = 0 THEN data
    ELSE SubSeq(data, Len(data) - max_entries + 1, Len(data))

\* data = load_data(); data.append(new_entry); the max entries limit
append_entry(p) ==
    /\ proc[p].pc = "data_load"
    /\ LET w == proc[p]
           all == Append(load_data(dataFile), w.new_entry)
           max_entries == w.settings.max_entries
           data == IF Len(all) > max_entries THEN Recent(all, max_entries) ELSE all
       IN  proc' = [proc EXCEPT ![p] =
               [w EXCEPT !.pc = "data_open", !.data = data,
                         !.dropped = Range(all) \ Range(data)]]
    /\ UNCHANGED <<settingsFile, dataFile, clock, nops, appended, evicted, cleared, clearedTo, symbolFiles, logoFiles>>

(***************************************************************************)
(* Requests.                                                               *)
(***************************************************************************)
PaddedName == Ws(1) \o Txt("N", MaxNameLen) \o Ws(1)
PaddedMessage == Ws(2) \o Txt("M", MaxMessageLen)
PaddedSymbol == Ws(1) \o Txt("diya.png", 8) \o Ws(1)

Names ==
    {<<>>, Ws(2), PaddedName, Txt("N", MaxNameLen + 1),
     Txt("A", 25) \o Ws(1) \o Txt("B", 25)}
Messages == {<<>>, PaddedMessage, Txt("M", MaxMessageLen + 1)}
Symbols == {<<>>, PaddedSymbol, Txt("bogus.png", 9)}

SubmitForms == [name : Names, message : Messages, symbol : Symbols]

\* the forms of overlapping requests: one that passes every check, one that fails
FewSubmitForms ==
    {[name |-> PaddedName, message |-> PaddedMessage, symbol |-> PaddedSymbol],
     [name |-> PaddedName, message |-> PaddedMessage, symbol |-> Txt("bogus.png", 9)]}

Form(header_text, max_entries, grid_mode, grid_rows, grid_cols, celebration_animations) ==
    [header_text |-> header_text, max_entries |-> max_entries, grid_mode |-> grid_mode,
     grid_rows |-> grid_rows, grid_cols |-> grid_cols,
     celebration_animations |-> celebration_animations]

UpdateForms ==
    {Form(<<>>, <<10>>, "manual", <<1>>, <<1>>, <<>>),
     Form(<<>>, <<1>>, "manual", <<1>>, <<2>>, <<"confetti">>),
     Form(Ws(1) \o Txt("Hi", 2), <<2>>, "manual", <<2>>, <<2>>, <<"bogus">>),
     Form(<<>>, <<0>>, "manual", <<MaxGridDim + 1>>, <<0>>, <<"rangoli", "bogus">>),
     Form(<<>>, <<2>>, "manual", <<1>>, <<2>>, <<"confetti">>),
     Form(<<>>, <<>>, "auto", <<2>>, <<>>, <<>>)}

FewUpdateForms ==
    {Form(<<>>, <<1>>, "manual", <<1>>, <<2>>, <<"confetti">>)}

(***************************************************************************)
(* mosaic                                                                  *)
(***************************************************************************)
\* the slice that keeps the oldest entries: data[:total_tiles]
MosaicEntriesOldest(data, total_tiles) ==
    IF Len(data) >= total_tiles THEN SubSeq(data, 1, total_tiles) ELSE data

\* data[-total_tiles:] if len(data) >= total_tiles else data; data[-0:] is data
MosaicEntries(data, total_tiles) ==
    IF Len(data) >= total_tiles
    THEN IF total_tiles = 0 THEN data
         ELSE SubSeq(data, Len(data) - total_tiles + 1, Len(data))
    ELSE data

mosaic(p) ==
    /\ proc[p].pc = "idle"
    /\ proc' = [proc EXCEPT ![p] = [Idle EXCEPT !.pc = "mosaic_settings",
                                                !.op = "mosaic",
                                                !.before = dataFile]]
    /\ nops' = nops + 1
    /\ UNCHANGED <<settingsFile, dataFile, clock, appended, evicted, cleared,
                   clearedTo, symbolFiles, logoFiles>>

\* load_data, the slice, render_template('mosaic.html', entries=entries, ..)
mosaic_data(p) ==
    /\ proc[p].pc = "mosaic_data"
    /\ LET w == proc[p]
           data == load_data(dataFile)
           total_tiles == w.settings.grid_rows * w.settings.grid_cols
           entries == MosaicEntries(data, total_tiles)
       IN  proc' = [proc EXCEPT ![p] =
               Respond([w EXCEPT !.data = data, !.entries = entries],
                       <<"mosaic.html", "ok">>)]
    /\ UNCHANGED <<settingsFile, dataFile, clock, nops, appended, evicted, cleared,
                   clearedTo, symbolFiles, logoFiles>>

\* the steps of a submit or clear_entries request in progress
DataStep(p) ==
    \/ load_admin_settings(p)
    \/ heal_open(p)
    \/ heal_dump(p)
    \/ get_available_positions(p)
    \/ append_entry(p)
    \/ save_data_open(p)
    \/ save_data_dump(p)
    \/ Return(p)

\* the steps of any request in progress
Step(p) ==
    \/ DataStep(p)
    \/ save_admin_settings_open(p)
    \/ save_admin_settings_dump(p)

\* requests overlap
Next ==
    \E p \in Procs :
        \/ nops < MaxOps /\ \E f \in FewSubmitForms : submit(p, f)
        \/ nops < MaxOps /\ \E f \in FewUpdateForms : update_settings(p, f)
        \/ nops < MaxOps /\ clear_entries(p)
        \/ Step(p)

Spec == Init /\ [][Next]_vars

\* requests run one at a time, on one worker
SeqProcs == {"w1"}

SeqNext ==
    \E p \in SeqProcs :
        \/ AllIdle /\ nops < MaxSeqOps /\ \E f \in SubmitForms : submit(p, f)
        \/ AllIdle /\ nops < MaxSeqOps /\ \E f \in UpdateForms : update_settings(p, f)
        \/ AllIdle /\ nops < MaxSeqOps /\ clear_entries(p)
        \/ Step(p)

SeqSpec == Init /\ [][SeqNext]_vars

\* submissions one at a time under settings that stay as an administrator
\* left them: never saved, or the defaults with one update_settings form applied
SubmitInit ==
    /\ settingsFile \in
           {Absent} \cup
           {Holding(ApplyUpdate(default_settings, f),
                    SettingsSize(ApplyUpdate(default_settings, f))) : f \in UpdateForms}
    /\ dataFile = Absent
    /\ proc = [p \in Procs |-> Idle]
    /\ clock = 0
    /\ nops = 0
    /\ appended = <<>>
    /\ evicted = {}
    /\ cleared = {}
    /\ clearedTo = 0
    /\ symbolFiles = DefaultSymbolFiles
    /\ logoFiles = DefaultLogoFiles

SubmitNext ==
    \E p \in SeqProcs :
        \/ AllIdle /\ nops < MaxSeqOps /\ \E f \in SubmitForms : submit(p, f)
        \/ DataStep(p)

SubmitSpec == SubmitInit /\ [][SubmitNext]_vars

(***************************************************************************)
(* api_admin_settings                                                      *)
(***************************************************************************)
api_admin_settings(p) ==
    /\ proc[p].pc = "idle"
    /\ proc' = [proc EXCEPT ![p] = [Idle EXCEPT !.pc = "api_settings",
                                                !.op = "api_admin_settings"]]
    /\ nops' = nops + 1
    /\ UNCHANGED <<settingsFile, dataFile, clock, appended, evicted, cleared, clearedTo, symbolFiles, logoFiles>>

(***************************************************************************)
(* Loading the settings from any persisted state: the file is absent, no   *)
(* JSON document, or a document holding any subset of the schema keys.     *)
(***************************************************************************)
Restrict(d, K) == [k \in K |-> d[k]]

\* documents with every key set: the defaults, and one with other values
\* (among them an empty symbol catalog and an empty animation list)
CustomSettings ==
    [logo_filename |-> "logo_20260101_000000.png",
     short_logo_filename |-> "logo_20260101_000001.png",
     header_text |-> Txt("Hi", 2),
     max_entries |-> 2,
     celebration_animations |-> <<>>,
     color_scheme |-> [submission_page |-> [background |-> "#111111"],
                       mosaic_page |-> [background |-> "#222222"]],
     grid_mode |-> "manual",
     grid_rows |-> 1,
     grid_cols |-> 2,
     symbols |-> <<>>]

FullSettings ==
    {default_settings, CustomSettings,
     [CustomSettings EXCEPT !.celebration_animations = <<"confetti">>,
                            !.symbols = <<[filename |-> Txt("star.png", 8),
                                           label |-> Txt("Star", 4)]>>]}

PersistedSettings ==
    {Absent, Corrupt(SettingsSize(default_settings))} \cup
    {Holding(Restrict(d, K), SettingsSize(Restrict(d, K))) :
        d \in FullSettings, K \in SUBSET (DOMAIN default_settings)}

LoadInit ==
    /\ settingsFile \in PersistedSettings
    /\ dataFile = Absent
    /\ proc = [p \in Procs |-> Idle]
    /\ clock = 0
    /\ nops = 0
    /\ appended = <<>>
    /\ evicted = {}
    /\ cleared = {}
    /\ clearedTo = 0
    /\ symbolFiles = DefaultSymbolFiles
    /\ logoFiles = DefaultLogoFiles

LoadNext ==
    \E p \in SeqProcs :
        \/ AllIdle /\ nops < MaxSeqOps /\ api_admin_settings(p)
        \/ load_admin_settings(p)
        \/ heal_open(p)
        \/ heal_dump(p)
        \/ Return(p)

LoadSpec == LoadInit /\ [][LoadNext]_vars

(***************************************************************************)
(* Properties.                                                             *)
(***************************************************************************)
\* the live entries: what load_data returns now
Ledger == load_data(dataFile)

\* no request is between its first and its last step
Quiescent == \A p \in Procs : proc[p].pc \in {"idle", "done"}

\* the settings a load would return now
CurrentSettings ==
    IF Parsable(settingsFile) THEN MergeDefaults(settingsFile.doc) ELSE default_settings

Capacity(s) == s.grid_rows * s.grid_cols

DistinctPositions(q) ==
    \A i, j \in 1..Len(q) : i # j => q[i].position # q[j].position

\* C1: under any interleaving of overlapping submit requests no two live
\* entries of the persisted ledger hold the same position.
C1_ConcurrentUniquePositions ==
    Parsable(dataFile) => DistinctPositions(dataFile.doc)

\* C2: when requests run one at a time, after any sequence of submit,
\* clear_entries and update_settings from an empty ledger every two distinct
\* live entries carry different positions.
C2_SequentialUniquePositions ==
    \A i \in 1..Len(Ledger) : \A j \in 1..Len(Ledger) :
        i < j => Ledger[i].position # Ledger[j].position

\* C2's case: after update_settings set the grid, submissions filled the
\* ledger to the cap and one more took a position while the oldest was dropped
C2_Witness ==
    /\ Quiescent
    /\ Len(Ledger) >= 2
    /\ evicted # {}
    /\ Parsable(settingsFile)
    /\ settingsFile.doc.grid_mode = "manual"

Min(a, b) == IF a <= b THEN a ELSE b

\* the lesser of max_entries and the grid's capacity, for the persisted settings
EffectiveCap == Min(CurrentSettings.max_entries, Capacity(CurrentSettings))

\* the last n elements of q, or all of q when it has fewer
LastN(q, n) == SubSeq(q, Len(q) - Min(n, Len(q)) + 1, Len(q))

\* C3: after any sequence of submissions the ledger holds at most
\* EffectiveCap entries, and they are the EffectiveCap most recently appended
\* entries in insertion order.
C3_CapacityBound ==
    Quiescent =>
        /\ Len(Ledger) <= EffectiveCap
        /\ Ledger = LastN(appended, EffectiveCap)

\* C3's case: a submission was saved that dropped the oldest entry at the cap
C3_Witness ==
    /\ Quiescent
    /\ evicted # {}
    /\ Len(appended) > EffectiveCap
    /\ Len(Ledger) = EffectiveCap

\* worker p reads admin_settings.json in this step
ReadsSettings(p) ==
    /\ proc[p].pc \in SettingsLabels
    /\ proc[p].heal = "none"
    /\ proc'[p] # proc[p]

\* worker p reads data.json in this step
ReadsData(p) ==
    /\ proc[p].pc \in {"avail_data", "data_load"}
    /\ proc'[p] # proc[p]

\* C4: a load that runs while the same document is being saved reads the
\* complete old or the complete new document: no read finds the file empty or
\* holding bytes that are no document.
C4_LoadSeesWholeDocument ==
    [][\A p \in Procs :
          /\ ReadsSettings(p) => settingsFile.st \in {"absent", "ok"}
          /\ ReadsData(p) => dataFile.st \in {"absent", "ok"}]_vars

\* C5: once no request is in flight, the entry of every submission that
\* reported success is in the persisted ledger, unless a saved submission
\* dropped it at the cap or a clear_entries removed it.
C5_NoLostSubmission ==
    Quiescent =>
        \A i \in 1..Len(appended) :
            \/ appended[i] \in Range(Ledger)
            \/ appended[i] \in evicted
            \/ appended[i] \in cleared

\* every position of the grid of the persisted settings is held by a live entry
GridFull ==
    \A pos \in 0..(Capacity(CurrentSettings) - 1) :
        \E i \in 1..Len(Ledger) : Ledger[i].position = pos

\* worker p, serving a submit whose fields passed every check, leaves
\* get_available_positions in this step
Allocates(p) ==
    /\ proc[p].pc = "avail_data"
    /\ proc'[p].pc # "avail_data"

\* worker p, serving a submit, writes the ledger and answers in this step
Saves(p) ==
    /\ proc[p].pc = "data_dump"
    /\ proc[p].op = "submit"
    /\ proc'[p].pc = "done"

\* C6: a submission with valid fields that finds every position of the grid
\* held is answered with the mosaic-is-full message, which no other rejection
\* uses, and writes nothing; on a 1 x 1 grid with max_entries 10 the submission
\* that finds the ledger empty takes position 0 and is saved and reported as
\* added, and the one that finds that entry is answered with the
\* mosaic-is-full message.
C6_CapacityExhausted ==
    [][\A p \in Procs :
          /\ (Allocates(p) /\ GridFull) =>
                /\ proc'[p].pc = "done"
                /\ proc'[p].flash = FlashFull
                /\ proc'[p].flash \notin {FlashRequired, FlashNameTooLong,
                                         FlashMessageTooLong, FlashInvalidSymbol}
                /\ dataFile' = dataFile
          /\ (Allocates(p) /\ Capacity(CurrentSettings) = 1
                           /\ CurrentSettings.max_entries = 10 /\ Ledger = <<>>) =>
                /\ proc'[p].pc = "data_load"
                /\ proc'[p].new_entry.position = 0
          /\ (Saves(p) /\ Capacity(CurrentSettings) = 1
                       /\ CurrentSettings.max_entries = 10) =>
                /\ proc'[p].flash = FlashSubmitted
                /\ Ledger' # <<>>
                /\ Ledger'[Len(Ledger')] = proc[p].new_entry
                /\ Ledger'[Len(Ledger')].position = 0]_vars

\* C6's case: on the 1 x 1 grid with max_entries 10 the second valid
\* submission has been answered while the first one's entry holds position 0
C6_Witness ==
    \E p \in Procs :
        /\ proc[p].pc = "done"
        /\ proc[p].flash = FlashFull
        /\ Capacity(CurrentSettings) = 1
        /\ CurrentSettings.max_entries = 10
        /\ Len(Ledger) = 1
        /\ Ledger[1].position = 0

\* the filenames of the catalog of the persisted settings
Catalog == {CurrentSettings.symbols[i].filename : i \in 1..Len(CurrentSettings.symbols)}

\* C7: submit checks the trimmed fields: an empty name, message or symbol is
\* rejected; a name longer than 50 or a message longer than 200 is rejected
\* and one of exactly 50, or 200, is not; a symbol that is not in the catalog
\* is rejected.
C7_ValidationBoundaries ==
    \A p \in Procs :
        proc[p].op = "submit" =>
            LET n == len(strip(proc[p].form.name))
                m == len(strip(proc[p].form.message))
                y == len(strip(proc[p].form.symbol))
                answered == proc[p].pc = "done"
                flash == proc[p].flash
            IN  /\ (n = 0 \/ m = 0 \/ y = 0) => answered /\ flash = FlashRequired
                /\ (n > 0 /\ m > 0 /\ y > 0 /\ n >= 51) =>
                       answered /\ flash = FlashNameTooLong
                /\ (n > 0 /\ m > 0 /\ y > 0 /\ n <= 50 /\ m >= 201) =>
                       answered /\ flash = FlashMessageTooLong
                /\ (n > 0 /\ m > 0 /\ y > 0 /\ n <= 50 /\ m <= 200) =>
                       /\ flash \notin {FlashRequired, FlashNameTooLong,
                                        FlashMessageTooLong}
                       /\ answered =>
                             (flash = FlashInvalidSymbol
                                 <=> strip(proc[p].form.symbol) \notin Catalog)

\* C7's case: a submission whose trimmed name has exactly 50 characters and
\* whose trimmed message has exactly 200 was accepted and saved
C7_Witness ==
    \E p \in Procs :
        /\ proc[p].pc = "done"
        /\ proc[p].op = "submit"
        /\ len(proc[p].form.name) > 50
        /\ len(strip(proc[p].form.name)) = 50
        /\ len(strip(proc[p].form.message)) = 200
        /\ proc[p].flash = FlashSubmitted

\* worker p, serving api_admin_settings, gets its settings from
\* load_admin_settings in this step
Loads(p) ==
    /\ proc[p].op = "api_admin_settings"
    /\ proc[p].pc = "api_settings"
    /\ proc'[p].pc = "done"

\* C8: loading a persisted settings document whose symbol catalog is present
\* and is the empty list returns settings whose catalog is the default one.
C8_EmptyCatalogDefaulted ==
    \A p \in Procs :
        (/\ proc[p].op = "api_admin_settings"
         /\ proc[p].pc = "done"
         /\ Parsable(settingsFile)
         /\ "symbols" \in DOMAIN settingsFile.doc
         /\ settingsFile.doc.symbols = <<>>) =>
            /\ proc[p].settings.symbols # <<>>
            /\ proc[p].settings.symbols = default_symbols

\* C9 as claimed: whatever is persisted, load returns a document with every
\* key of the default schema that keeps the value of every key that was
\* present, and leaves the defaults persisted when the file was absent or no
\* document.
C9_LoadCompleteKeepsAll ==
    [][\A p \in Procs :
          Loads(p) =>
              /\ DOMAIN default_settings \subseteq DOMAIN proc'[p].settings
              /\ Parsable(settingsFile) =>
                    \A key \in DOMAIN settingsFile.doc :
                        proc'[p].settings[key] = settingsFile.doc[key]
              /\ ~Parsable(settingsFile) =>
                    /\ Parsable(settingsFile')
                    /\ settingsFile'.doc = default_settings]_vars

\* C9 as amended: whatever is persisted, load returns a document with every
\* key of the default schema that keeps the value of every key that was
\* present, except a celebration_animations that was present and empty, which
\* is returned as the default list; it leaves the defaults persisted when the
\* file was absent or no document.
C9_LoadCompleteKeepsSet ==
    [][\A p \in Procs :
          Loads(p) =>
              /\ DOMAIN default_settings \subseteq DOMAIN proc'[p].settings
              /\ Parsable(settingsFile) =>
                    \A key \in DOMAIN settingsFile.doc :
                        IF key = "celebration_animations"
                           /\ settingsFile.doc[key] = <<>>
                        THEN proc'[p].settings[key] =
                                 default_settings.celebration_animations
                        ELSE proc'[p].settings[key] = settingsFile.doc[key]
              /\ ~Parsable(settingsFile) =>
                    /\ Parsable(settingsFile')
                    /\ settingsFile'.doc = default_settings]_vars

\* C9's case: a load has returned from a document that held some keys of the
\* schema, with values other than the defaults, and lacked others
C9_Witness ==
    \E p \in Procs :
        /\ proc[p].op = "api_admin_settings"
        /\ proc[p].pc = "done"
        /\ Parsable(settingsFile)
        /\ "grid_rows" \in DOMAIN settingsFile.doc
        /\ settingsFile.doc.grid_rows # default_settings.grid_rows
        /\ "celebration_animations" \in DOMAIN settingsFile.doc
        /\ settingsFile.doc.celebration_animations = <<>>
        /\ "symbols" \notin DOMAIN settingsFile.doc
        /\ proc[p].settings.symbols = default_symbols

\* C10: merging the defaults into what load returned gives back the same
\* document: the merge applied on load is idempotent.
C10_MergeIdempotent ==
    \A p \in Procs :
        (proc[p].op = "api_admin_settings" /\ proc[p].pc = "done") =>
            MergeDefaults(proc[p].settings) = proc[p].settings

\* C10's case: a load has returned a document the merge had to change: a key
\* was missing and the animation list was empty
C10_Witness ==
    \E p \in Procs :
        /\ proc[p].op = "api_admin_settings"
        /\ proc[p].pc = "done"
        /\ Parsable(settingsFile)
        /\ "max_entries" \notin DOMAIN settingsFile.doc
        /\ "celebration_animations" \in DOMAIN settingsFile.doc
        /\ settingsFile.doc.celebration_animations = <<>>
        /\ proc[p].settings # settingsFile.doc

(***************************************************************************)
(* Requests on the symbol catalog, one at a time from the first run.       *)
(***************************************************************************)
AddForms ==
    {[has_file |-> TRUE, filename |-> <<"s", ".", "P", "N", "G">>,
      label |-> Ws(1) \o Txt("Star", 4)],
     [has_file |-> FALSE, filename |-> <<>>, label |-> Txt("Star", 4)],
     [has_file |-> TRUE, filename |-> <<>>, label |-> Txt("Star", 4)],
     [has_file |-> TRUE, filename |-> <<"s", ".", "p", "n", "g">>, label |-> Ws(2)],
     [has_file |-> TRUE, filename |-> <<"s", ".", "j", "p", "g">>,
      label |-> Txt("Star", 4)]}

\* the forms the admin page can post: the file name of a symbol it lists (sent
\* padded), a blank one, one that is in no catalog
RemoveForms ==
    {[filename |-> Ws(1)], [filename |-> Txt("bogus.png", 9)]} \cup
    {[filename |-> Ws(1) \o fn \o Ws(1)] : fn \in Catalog}

SymbolNext ==
    \E p \in SeqProcs :
        \/ AllIdle /\ nops < MaxSymbolOps /\ \E f \in AddForms : add_symbol(p, f)
        \/ AllIdle /\ nops < MaxSymbolOps /\ \E f \in RemoveForms : remove_symbol(p, f)
        \/ load_admin_settings(p)
        \/ heal_open(p)
        \/ heal_dump(p)
        \/ add_symbol_file(p)
        \/ remove_symbol_file(p)
        \/ save_admin_settings_open(p)
        \/ save_admin_settings_dump(p)
        \/ Return(p)

SymbolSpec == Init /\ [][SymbolNext]_vars

\* worker p, serving remove_symbol, gets its settings in this step
LoadsForRemoval(p) ==
    /\ proc[p].op = "remove_symbol"
    /\ proc[p].pc = "remove_settings"
    /\ proc[p].heal = "none"
    /\ proc'[p] # proc[p]

\* C11: remove_symbol of the only symbol of a catalog of exactly one symbol is
\* answered with the cannot-remove-the-last-symbol error and leaves the
\* persisted settings, and so the catalog of length 1, as they were.
C11_LastSymbolKept ==
    [][\A p \in Procs :
          (/\ LoadsForRemoval(p)
           /\ Len(CurrentSettings.symbols) = 1
           /\ CurrentSettings.symbols[1].filename = proc[p].filename) =>
              /\ proc'[p].pc = "done"
              /\ proc'[p].flash = FlashLastSymbol
              /\ proc'[p].flash[2] = "error"
              /\ settingsFile' = settingsFile
              /\ Len(CurrentSettings'.symbols) = 1]_vars

\* C11's case: two symbols of the default catalog were removed and the removal
\* of the one that is left has been refused
C11_Witness ==
    \E p \in Procs :
        /\ proc[p].op = "remove_symbol"
        /\ proc[p].pc = "done"
        /\ proc[p].flash = FlashLastSymbol
        /\ Len(CurrentSettings.symbols) = 1
        /\ CurrentSettings.symbols[1].filename = proc[p].filename

\* C12: starting from the default catalog, after any sequence of add_symbol
\* and remove_symbol the persisted catalog holds at least one symbol.
C12_CatalogNeverEmpty == Len(CurrentSettings.symbols) >= 1

\* C13: after any sequence of add_symbol no two entries of the persisted
\* catalog have the same file name.
C13_CatalogUniqueFilenames ==
    \A i \in 1..Len(CurrentSettings.symbols) :
        \A j \in 1..Len(CurrentSettings.symbols) :
            i < j => CurrentSettings.symbols[i].filename
                         # CurrentSettings.symbols[j].filename

(***************************************************************************)
(* Color scheme uploads, one at a time, onto settings never saved or saved *)
(* with every key.                                                         *)
(***************************************************************************)
Garbage == [kind |-> "garbage", val |-> <<>>]
JsonList(items) == [kind |-> "list", val |-> items]
JsonDict(sections) == [kind |-> "dict", val |-> sections]

Red == <<"#", "F", "f", "0", "0", "0", "0">>
Gold == <<"#", "f", "c", "0">>

\* schemes that pass every check: the required fields only; more fields, one
\* of them a lone '#'
PlainScheme ==
    [submission_page |->
        [background |-> Red, text |-> Gold, button |-> Gold, button_text |-> Red],
     mosaic_page |->
        [background |-> Gold, text |-> Red, tile_background |-> Red,
         tile_text |-> Gold, tile_border |-> Gold]]

RichScheme ==
    [submission_page |->
        [background |-> Gold, text |-> Red, button |-> Red, button_text |-> Gold,
         heading_text |-> <<"#">>],
     mosaic_page |->
        [background |-> Red, text |-> Gold, tile_background |-> Gold,
         tile_text |-> Red, tile_border |-> Red]]

ColorBodies ==
    {Garbage,
     JsonList(<<"submission_page", "mosaic_page">>),
     JsonList(<<"submission_page">>),
     JsonDict(PlainScheme),
     JsonDict(RichScheme),
     JsonDict([submission_page |-> PlainScheme.submission_page]),
     JsonDict([PlainScheme EXCEPT !.submission_page =
                  [background |-> Red, text |-> Gold, button_text |-> Red]]),
     JsonDict([PlainScheme EXCEPT !.mosaic_page =
                  [background |-> Gold, text |-> Red, tile_background |-> Red,
                   tile_text |-> Gold]]),
     JsonDict([PlainScheme EXCEPT !.mosaic_page.tile_border = <<"r", "e", "d">>]),
     JsonDict([PlainScheme EXCEPT !.submission_page.button = <<"#", "f", "g">>]),
     JsonDict([PlainScheme EXCEPT !.submission_page.text = <<>>]),
     JsonDict([submission_page |-> PlainScheme.submission_page,
               mosaic_page |-> PlainScheme.mosaic_page,
               admin_page |-> [background |-> <<"f", "c", "0">>]])}

SchemeJson == <<"s", ".", "j", "s", "o", "n">>

ColorForms ==
    {[has_file |-> TRUE, filename |-> SchemeJson, body |-> b] : b \in ColorBodies}
    \cup
    {[has_file |-> FALSE, filename |-> <<>>, body |-> JsonDict(PlainScheme)],
     [has_file |-> TRUE, filename |-> <<>>, body |-> JsonDict(PlainScheme)],
     [has_file |-> TRUE, filename |-> <<"s", ".", "J", "S", "O", "N">>,
      body |-> JsonDict(PlainScheme)],
     [has_file |-> TRUE, filename |-> <<"j", "s", "o", "n">>,
      body |-> JsonDict(RichScheme)]}

ColorInit ==
    /\ settingsFile \in
           {Absent} \cup {Holding(d, SettingsSize(d)) : d \in FullSettings}
    /\ dataFile = Absent
    /\ proc = [p \in Procs |-> Idle]
    /\ clock = 0
    /\ nops = 0
    /\ appended = <<>>
    /\ evicted = {}
    /\ cleared = {}
    /\ clearedTo = 0
    /\ symbolFiles = DefaultSymbolFiles
    /\ logoFiles = DefaultLogoFiles

ColorNext ==
    \E p \in SeqProcs :
        \/ AllIdle /\ nops < MaxColorOps /\ \E f \in ColorForms : upload_color_scheme(p, f)
        \/ load_admin_settings(p)
        \/ heal_open(p)
        \/ heal_dump(p)
        \/ save_admin_settings_open(p)
        \/ save_admin_settings_dump(p)
        \/ Return(p)

ColorSpec == ColorInit /\ [][ColorNext]_vars

\* a '#' followed by hexadecimal digits only
HexString(value) ==
    /\ value # <<>>
    /\ Head(value) = "#"
    /\ \A i \in 1..Len(Tail(value)) : Tail(value)[i] \in HexDigits

\* the upload is a .json file holding an object with both sections, each with
\* its required fields, and every value of it is a '#'-prefixed hex string
PassesEveryCheck(f) ==
    /\ f.has_file
    /\ endswith(f.filename, DotJson)
    /\ f.body.kind = "dict"
    /\ "submission_page" \in DOMAIN f.body.val
    /\ "mosaic_page" \in DOMAIN f.body.val
    /\ \A field \in {"background", "text", "button", "button_text"} :
           field \in DOMAIN f.body.val.submission_page
    /\ \A field \in {"background", "text", "tile_background", "tile_text",
                     "tile_border"} :
           field \in DOMAIN f.body.val.mosaic_page
    /\ \A section \in DOMAIN f.body.val :
           \A field \in DOMAIN f.body.val[section] :
               HexString(f.body.val[section][field])

\* C14: an upload_color_scheme request whose document fails a check (no JSON,
\* a section or a required field missing, a value that is no '#'-prefixed hex
\* string) is answered with an error and leaves admin_settings.json as it
\* was; the handler gets to its save only with a document that passes every
\* check, and what it saves has that document as its color scheme.
C14_RejectedSchemeLeavesSettings ==
    [][\A p \in Procs :
          /\ (/\ proc[p].pc = "idle"
              /\ proc'[p].op = "upload_color_scheme"
              /\ ~PassesEveryCheck(proc'[p].form)) =>
                 /\ proc'[p].pc = "done"
                 /\ proc'[p].flash[2] = "error"
                 /\ settingsFile' = settingsFile
          /\ (/\ proc[p].op = "upload_color_scheme"
              /\ proc[p].pc \in {"color_settings", "settings_open", "settings_dump"}) =>
                 PassesEveryCheck(proc[p].form)
          /\ (/\ proc[p].op = "upload_color_scheme"
              /\ proc[p].pc = "settings_dump"
              /\ proc'[p].pc = "done") =>
                 /\ proc'[p].flash = FlashColorSchemeUpdated
                 /\ Parsable(settingsFile')
                 /\ settingsFile'.doc.color_scheme = proc[p].form.body.val]_vars

\* C14's case: after an upload replaced the color scheme, an upload with a
\* value that is no hex string has been refused and the scheme is still there
C14_Witness ==
    \E p \in Procs :
        /\ proc[p].op = "upload_color_scheme"
        /\ proc[p].pc = "done"
        /\ proc[p].flash = FlashInvalidColor
        /\ Parsable(settingsFile)
        /\ "button" \in DOMAIN settingsFile.doc.color_scheme.submission_page
        /\ settingsFile.doc.color_scheme \in {PlainScheme, RichScheme}

\* the rejections of submit
SubmitRejections ==
    {FlashRequired, FlashNameTooLong, FlashMessageTooLong, FlashInvalidSymbol, FlashFull}

\* a field of the form is empty once trimmed, or the name or the message is
\* over-long
EmptyOrOverlong(f) ==
    \/ len(strip(f.name)) = 0
    \/ len(strip(f.message)) = 0
    \/ len(strip(f.symbol)) = 0
    \/ len(strip(f.name)) > 50
    \/ len(strip(f.message)) > 200

\* C15: a submission that has been rejected (as one with an empty or
\* over-long field is, and one with a symbol that is not in the catalog, and
\* one that found no free position) leaves data.json exactly as the request
\* found it.
C15_RejectedLeavesLedger ==
    \A p \in Procs :
        (proc[p].op = "submit" /\ proc[p].pc = "done") =>
            /\ EmptyOrOverlong(proc[p].form) => proc[p].flash \in SubmitRejections
            /\ proc[p].flash \in SubmitRejections =>
                  /\ dataFile = proc[p].before
                  /\ Ledger = load_data(proc[p].before)

\* C15's case: with two entries in the ledger, a submission has been rejected
\* for want of a free position
C15_Witness ==
    \E p \in Procs :
        /\ proc[p].op = "submit"
        /\ proc[p].pc = "done"
        /\ proc[p].flash = FlashFull
        /\ Len(Ledger) >= 2
        /\ Ledger = load_data(proc[p].before)

\* worker p, serving a submit, loads the ledger it appends its entry to in
\* this step
Appends(p) ==
    /\ proc[p].pc = "data_load"
    /\ proc'[p].pc = "data_open"

\* C16: within one submit the grid whose positions get_available_positions
\* ranges over is the grid of the settings the symbol check and the cap use,
\* and the ledger the entry is appended to is the ledger the available
\* positions were computed from, whatever other requests write meanwhile.
C16_OneSnapshot ==
    [][\A p \in Procs :
          /\ Allocates(p) =>
                proc[p].total_positions
                    = proc[p].settings.grid_rows * proc[p].settings.grid_cols
          /\ Appends(p) =>
                /\ load_data(dataFile) = proc[p].data
                /\ proc'[p].data # <<>>
                /\ proc'[p].data[Len(proc'[p].data)] = proc[p].new_entry]_vars

\* C17: a submission that drops entries at the cap drops the oldest ones and
\* keeps the others in order, gives its own entry a position other than a
\* dropped entry's, and leaves a ledger and settings from which the next
\* submission computes an available set that holds every dropped entry's
\* position.
C17_EvictionFifoNoReuse ==
    \A p \in Procs :
        proc[p].op = "submit" =>
            /\ (proc[p].pc = "data_open" /\ proc[p].dropped # {}) =>
                  /\ \E k \in 1..Len(Ledger) :
                        /\ proc[p].dropped = Range(SubSeq(Ledger, 1, k))
                        /\ proc[p].data =
                               Append(SubSeq(Ledger, k + 1, Len(Ledger)),
                                      proc[p].new_entry)
                  /\ \A e \in proc[p].dropped :
                         e.position # proc[p].new_entry.position
            /\ (/\ proc[p].pc = "done"
                /\ proc[p].flash = FlashSubmitted
                /\ proc[p].dropped # {}) =>
                  \A e \in proc[p].dropped :
                      /\ e.position # proc[p].new_entry.position
                      /\ e.position \in
                             AvailablePositions(Capacity(CurrentSettings), Ledger)

\* the entries of the submissions saved since the last clear_entries completed
SavedSinceClear == Range(SubSeq(appended, clearedTo + 1, Len(appended)))

\* C18: once a clear_entries has completed, the live entries are entries of
\* submissions saved after it (none of those saved before it is live again,
\* also when a submission that started before the clear saves after it), and
\* every position of the grid that none of those later entries holds is
\* available.
C18_ClearIsFinal ==
    /\ Range(Ledger) \subseteq SavedSinceClear
    /\ {pos \in 0..(Capacity(CurrentSettings) - 1) :
             \A e \in SavedSinceClear : e.position # pos}
           \subseteq AvailablePositions(Capacity(CurrentSettings), Ledger)

\* C19: under any interleaving of submissions the timestamps of the live
\* entries do not decrease along the persisted ledger.
C19_TimestampsMonotone ==
    \A i \in 1..Len(Ledger) : \A j \in 1..Len(Ledger) :
        i < j => Ledger[i].timestamp <= Ledger[j].timestamp

\* C20: after any sequence of submissions and update_settings requests every
\* live entry's position is at least 0 and below grid_rows * grid_cols of the
\* persisted settings.
C20_PositionsWithinGrid ==
    \A i \in 1..Len(Ledger) :
        /\ 0 <= Ledger[i].position
        /\ Ledger[i].position < Capacity(CurrentSettings)

(***************************************************************************)
(* Overlapping requests that change the settings: update_settings,         *)
(* add_symbol, remove_symbol, upload_color_scheme, upload_logo.            *)
(***************************************************************************)
MaxSettingsOps == 2

\* logo uploads: a PNG for the main logo, a name that is only an extension for
\* the short one, a text file, no file
LogoForms ==
    {[has_file |-> TRUE, filename |-> <<"m", "y", " ", "l", ".", "P", "n", "g">>,
      logo_type |-> "main"],
     [has_file |-> TRUE, filename |-> <<".", "s", "v", "g">>, logo_type |-> "short"],
     [has_file |-> TRUE, filename |-> <<"l", ".", "t", "x", "t">>, logo_type |-> "main"],
     [has_file |-> FALSE, filename |-> <<>>, logo_type |-> "main"]}

SettingsUpdateForms ==
    {Form(Ws(1) \o Txt("Hi", 2), <<2>>, "manual", <<2>>, <<2>>, <<"bogus">>),
     Form(<<>>, <<>>, "auto", <<2>>, <<>>, <<>>)}

SettingsColorForms ==
    {[has_file |-> TRUE, filename |-> SchemeJson, body |-> JsonDict(PlainScheme)],
     [has_file |-> TRUE, filename |-> SchemeJson, body |-> Garbage]}

SettingsNext ==
    \E p \in Procs :
        \/ nops < MaxSettingsOps /\ \E f \in SettingsUpdateForms : update_settings(p, f)
        \/ nops < MaxSettingsOps /\ \E f \in AddForms : add_symbol(p, f)
        \/ nops < MaxSettingsOps /\ \E f \in RemoveForms : remove_symbol(p, f)
        \/ nops < MaxSettingsOps /\ \E f \in SettingsColorForms : upload_color_scheme(p, f)
        \/ nops < MaxSettingsOps /\ \E f \in LogoForms : upload_logo(p, f)
        \/ load_admin_settings(p)
        \/ heal_open(p)
        \/ heal_dump(p)
        \/ add_symbol_file(p)
        \/ remove_symbol_file(p)
        \/ upload_logo_file(p)
        \/ save_admin_settings_open(p)
        \/ save_admin_settings_dump(p)
        \/ Return(p)

SettingsSpec == Init /\ [][SettingsNext]_vars

\* worker w has answered a settings-changing request with its success message
Completed(w) ==
    /\ w.pc = "done"
    /\ w.op \in {"update_settings", "add_symbol", "remove_symbol",
                 "upload_color_scheme", "upload_logo"}
    /\ w.flash = FlashSaved(w)

\* the change the completed request of w makes to settings s when it runs alone
ApplyCompleted(w, s) ==
    CASE w.op = "update_settings" -> ApplyUpdate(s, w.form)
      [] w.op = "add_symbol" ->
            [s EXCEPT !.symbols =
                Append(@, [filename |-> w.filename, label |-> w.label])]
      [] w.op = "remove_symbol" ->
            [s EXCEPT !.symbols = WithoutSymbol(@, w.filename)]
      [] w.op = "upload_color_scheme" -> [s EXCEPT !.color_scheme = w.form.body.val]
      [] w.op = "upload_logo" ->
            IF w.form.logo_type = "short"
            THEN [s EXCEPT !.short_logo_filename = w.filename]
            ELSE [s EXCEPT !.logo_filename = w.filename]

\* two settings documents are the same; the fields of the colour schemes are
\* matched before their values
SameSettings(a, b) ==
    /\ DOMAIN a = DOMAIN b
    /\ \A key \in DOMAIN a \ {"color_scheme"} : a[key] = b[key]
    /\ DOMAIN a.color_scheme = DOMAIN b.color_scheme
    /\ \A section \in DOMAIN a.color_scheme :
          DOMAIN a.color_scheme[section] = DOMAIN b.color_scheme[section]
    /\ \A section \in DOMAIN a.color_scheme :
          \A field \in DOMAIN a.color_scheme[section] :
              a.color_scheme[section][field] = b.color_scheme[section][field]

\* C21: once two overlapping settings-changing requests have both completed on
\* settings never saved before, admin_settings.json holds the defaults with the
\* two changes applied in one order or the other
C21_SerialOutcome ==
    (nops = 2 /\ \A p \in Procs : Completed(proc[p]))
        => /\ Parsable(settingsFile)
           /\ \E p, q \in Procs :
                 /\ p # q
                 /\ SameSettings(settingsFile.doc,
                        ApplyCompleted(proc[q],
                            ApplyCompleted(proc[p], default_settings)))

\* the same for a document that can be read back: no completed change is
\* missing from it
C21_NoLostUpdate ==
    (nops = 2 /\ Parsable(settingsFile) /\ \A p \in Procs : Completed(proc[p]))
        => \E p, q \in Procs :
              /\ p # q
              /\ SameSettings(settingsFile.doc,
                     ApplyCompleted(proc[q],
                         ApplyCompleted(proc[p], default_settings)))

(***************************************************************************)
(* The mosaic view among submissions and settings updates, one request at  *)
(* a time.                                                                 *)
(***************************************************************************)
MosaicNext ==
    \E p \in SeqProcs :
        \/ AllIdle /\ nops < MaxSeqOps /\ \E f \in FewSubmitForms : submit(p, f)
        \/ AllIdle /\ nops < MaxSeqOps /\ \E f \in UpdateForms : update_settings(p, f)
        \/ AllIdle /\ nops < MaxSeqOps /\ mosaic(p)
        \/ mosaic_data(p)
        \/ Step(p)

MosaicSpec == Init /\ [][MosaicNext]_vars

\* worker w has rendered the mosaic
Rendered(w) == w.pc = "done" /\ w.op = "mosaic"

\* C22: the mosaic view shows the last min(grid_rows * grid_cols, length)
\* entries of the ledger, in the ledger's order, and data.json is as the
\* request found it: entries that no longer fit the grid are still on file.
C22_MosaicShowsRecent ==
    \A p \in SeqProcs :
        Rendered(proc[p]) =>
            LET w == proc[p]
                n == Capacity(CurrentSettings)
                k == Min(n, Len(Ledger))
            IN  /\ Len(w.entries) = k
                /\ \A i \in 1..k : w.entries[i] = Ledger[Len(Ledger) - k + i]
                /\ dataFile = w.before

\* the grid was shrunk below the number of entries on file: the view shows the
\* newest entry only and both entries are still in data.json
C22_Witness ==
    \E p \in SeqProcs :
        /\ Rendered(proc[p])
        /\ Len(Ledger) = 2
        /\ Capacity(CurrentSettings) = 1
        /\ proc[p].entries = <<Ledger[2]>>
        /\ Ledger[1] # Ledger[2]

(***************************************************************************)
(* Submissions and clear_entries, one request at a time, under settings    *)
(* that stay as an administrator left them.                                *)
(***************************************************************************)
FixedNext ==
    \E p \in SeqProcs :
        \/ AllIdle /\ nops < MaxSeqOps /\ \E f \in FewSubmitForms : submit(p, f)
        \/ AllIdle /\ nops < MaxSeqOps /\ clear_entries(p)
        \/ DataStep(p)

FixedSpec == SubmitInit /\ [][FixedNext]_vars

\* worker w has answered a submission
Answered(w) == w.pc = "done" /\ w.op = "submit"

\* the fields of w's submission pass every check of submit
ValidFields(w) ==
    /\ Validate(strip(w.form.name), strip(w.form.message), strip(w.form.symbol)) = <<>>
    /\ strip(w.form.symbol) \in Catalog

\* C23: under fixed settings and requests one at a time, from an empty ledger:
\* when max_entries is below the grid's capacity some position is always free,
\* no submission is answered with the mosaic-is-full message and every
\* submission with valid fields is added; when max_entries is at least the
\* capacity nothing is ever evicted, and a submission that finds the grid full
\* is not added: with valid fields it gets the mosaic-is-full message.
C23_CapBelowGridNeverFull ==
    LET max_entries == CurrentSettings.max_entries
        total == Capacity(CurrentSettings)
    IN  /\ max_entries < total =>
              /\ AvailablePositions(total, Ledger) # {}
              /\ \A p \in SeqProcs :
                    Answered(proc[p]) =>
                        /\ proc[p].flash # FlashFull
                        /\ ValidFields(proc[p]) => proc[p].flash = FlashSubmitted
        /\ max_entries >= total =>
              /\ evicted = {}
              /\ \A p \in SeqProcs :
                    (/\ Answered(proc[p])
                     /\ AvailablePositions(total, load_data(proc[p].before)) = {}) =>
                        /\ proc[p].flash # FlashSubmitted
                        /\ ValidFields(proc[p]) => proc[p].flash = FlashFull
                        /\ dataFile = proc[p].before

\* with max_entries 1 on the 1 x 2 grid the third valid submission in a row has
\* been added: the cap evicted before the grid could fill
C23_Witness ==
    \E p \in SeqProcs :
        /\ Answered(proc[p])
        /\ proc[p].flash = FlashSubmitted
        /\ CurrentSettings.max_entries = 1
        /\ Capacity(CurrentSettings) = 2
        /\ Len(appended) = 3
        /\ Len(Ledger) = 1

\* with max_entries 10 on the 1 x 1 grid the ledger was cleared and filled
\* again, and the next valid submission was turned away as full
C23_WitnessFullAgain ==
    \E p \in SeqProcs :
        /\ Answered(proc[p])
        /\ ValidFields(proc[p])
        /\ proc[p].flash = FlashFull
        /\ CurrentSettings.max_entries = 10
        /\ Capacity(CurrentSettings) = 1
        /\ cleared # {}
        /\ Len(appended) = 2
        /\ evicted = {}
====
